---- MODULE Spec2Model ----
(***************************************************************************)
(* Model of the builder layer (builder.py) and of the model assembly,      *)
(* classification heads and train/validation steps (model.py).             *)
(***************************************************************************)
EXTENDS Integers, Sequences, FiniteSets, TLC

VARIABLES
    requires_grad,  \* param -> BOOLEAN           (Parameter.requires_grad)
    grad,           \* param -> "none" | "set"    (Parameter.grad is None / holds a gradient)
    value,          \* param -> number of updates applied to the parameter's value
    batches_tracked, \* forward passes seen by the backbone's BatchNorm buffers
    optimizer,      \* self.optimizer: Option of an optimizer id
    optState,       \* optimizer id -> [zero_grads, steps]
    lastAttached,   \* history: the argument of the last configure_optimizer call
    trace,          \* operations performed by the last training/validation step
    lastCall,       \* [name, outcome] of the last operation called
    built,          \* outcome of the last build_optimizer call
    data,           \* build_dataset: the configuration passed in
    dsOut,          \* build_dataset: its outcome
    asmIn,          \* ResNetDeepFashion(**kwargs): the keyword arguments
    asmOut,         \* ResNetDeepFashion(**kwargs): the assembled model
    headIn,         \* a classification head and the tensor given to it
    headOut         \* what the head's forward returned

modelVars == <<requires_grad, grad, value, batches_tracked, optimizer, optState,
               lastAttached, trace, lastCall, built>>

datasetVars == <<data, dsOut>>

assembleVars == <<asmIn, asmOut>>

headVars == <<headIn, headOut>>

vars == <<modelVars, datasetVars, assembleVars, headVars>>

-----------------------------------------------------------------------------
(* Python values *)

None == [isNone |-> TRUE, v |-> <<>>]
Some(x) == [isNone |-> FALSE, v |-> x]

\* d[k] = v on a dict
SetKey(d, k, v) == [x \in (DOMAIN d) \cup {k} |-> IF x = k THEN v ELSE d[x]]

\* x in list
InList(x, list) == \E i \in 1..Len(list) : list[i] = x

Range(s) == {s[i] : i \in 1..Len(s)}

EmptyDict == [x \in {} |-> 0]

-----------------------------------------------------------------------------
(* The module tree of an assembled model: names are paths of attribute names *)

MaxSteps == 3

BackboneParams == << <<"backbone", "0", "weight">>, <<"backbone", "1", "weight">> >>

HeadParams == << <<"cls_head", "cls_head", "weight">>, <<"cls_head", "cls_head", "bias">> >>

\* model.parameters(): backbone first, then cls_head (attribute order of __init__)
ModelParameters == BackboneParams \o HeadParams

Params == Range(ModelParameters)

\* model.named_modules(): pre-order walk, the root is named ''
NamedModules ==
    << <<>>, <<"backbone">>, <<"backbone", "0">>, <<"backbone", "1">>,
       <<"cls_head">>, <<"cls_head", "cls_head">> >>

IsPrefix(p, s) == Len(p) <= Len(s) /\ SubSeq(s, 1, Len(p)) = p

\* module.parameters() of the module named m
parameters(m) == SelectSeq(ModelParameters, LAMBDA p : IsPrefix(m, p))

-----------------------------------------------------------------------------
(* Optimizers made by the caller, e.g. torch.optim.Adam(model.parameters()) *)

OptIds == {"optAll", "optHead"}

OptParams(o) == IF o = "optAll" THEN Params ELSE Range(HeadParams)

NoCall == [name |-> "construct", outcome |-> "ok"]

NotBuilt ==
    [status |-> "none", raisedAt |-> 0, type |-> "", called |-> FALSE,
     kwargs |-> EmptyDict, names |-> {}, trainable_params |-> <<>>,
     cfg_params |-> None, cfg_keys |-> {}]

-----------------------------------------------------------------------------
(* builder.py: the optimizer registry and build_optimizer *)

\* the classes of torch.optim, by name
OPTIMIZERS == {"Adam", "SGD", "Optimizer"}

OptimizerTypes == OPTIMIZERS \cup {"Nonexistent"}

\* values of cfg['params'] tried
ParamsChoices ==
    { None,
      Some(<< <<"cls_head">> >>),
      Some(<< <<"backbone">> >>),
      Some(<< <<"backbone">>, <<"cls_head">> >>),
      Some(<< <<"no_such_module">> >>) }

\* values of cfg['optimizer_cfg'] tried; the last one already carries 'params'
OptimizerCfgChoices ==
    { EmptyDict,
      [lr |-> 1],
      [lr |-> 1, params |-> Some(HeadParams)] }

\* OPTIMIZERS[optimizer_type](**optimizer_cfg): torch.optim.Optimizer.__init__
\* refuses params=None (not iterable) and an empty parameter list
OptimizerInit(res, optimizer_type, kwargs) ==
    LET r == [res EXCEPT !.called = TRUE, !.kwargs = kwargs]
    IN  IF kwargs["params"].isNone
        THEN [r EXCEPT !.status = "TypeError", !.raisedAt = 163]
        ELSE IF kwargs["params"].v = <<>>
        THEN [r EXCEPT !.status = "ValueError", !.raisedAt = 163]
        ELSE [r EXCEPT !.status = "ok"]

\* for name, module in model.named_modules(): if name in cfg['params']: ...
\* list.extend returns None, which is what optimizer_cfg['params'] is set to
RECURSIVE CollectNamed(_, _, _, _)
CollectNamed(i, names, trainable_params, optimizer_cfg) ==
    IF i > Len(NamedModules)
    THEN [trainable_params |-> trainable_params, optimizer_cfg |-> optimizer_cfg]
    ELSE IF InList(NamedModules[i], names)
    THEN CollectNamed(i + 1, names,
                      trainable_params \o parameters(NamedModules[i]),
                      SetKey(optimizer_cfg, "params", None))
    ELSE CollectNamed(i + 1, names, trainable_params, optimizer_cfg)

\* trainable_params = list(filter(lambda x: x.requires_grad, model.parameters()))
CollectTrainable(rg, optimizer_cfg) ==
    [trainable_params |-> SelectSeq(ModelParameters, LAMBDA p : rg[p]),
     optimizer_cfg |-> optimizer_cfg]

build_optimizer(cfg, rg) ==
    LET optimizer_type == cfg.type
        sel == IF ~cfg.params.isNone
               THEN CollectNamed(1, cfg.params.v, <<>>, cfg.optimizer_cfg)
               ELSE CollectTrainable(rg, cfg.optimizer_cfg)
        res == [NotBuilt EXCEPT !.trainable_params = sel.trainable_params,
                                !.cfg_params = cfg.params,
                                !.type = optimizer_type,
                                !.cfg_keys = DOMAIN cfg.optimizer_cfg]
    IN  IF "params" \notin DOMAIN sel.optimizer_cfg
        THEN \* logging.debug(f'... {optimizer_cfg["params"]}')
             [res EXCEPT !.status = "KeyError", !.raisedAt = 158]
        ELSE IF optimizer_type \notin OPTIMIZERS
        THEN [res EXCEPT !.status = "ValueError", !.raisedAt = 160,
                         !.names = OPTIMIZERS]
        ELSE OptimizerInit(res, optimizer_type, sel.optimizer_cfg)

BuildOptimizer ==
    /\ \E t \in OptimizerTypes, ps \in ParamsChoices, oc \in OptimizerCfgChoices :
          built' = build_optimizer([type |-> t, params |-> ps, optimizer_cfg |-> oc],
                                   requires_grad)
    /\ lastCall' = [name |-> "build_optimizer", outcome |-> built'.status]
    /\ UNCHANGED <<requires_grad, grad, value, batches_tracked, optimizer, optState,
                 lastAttached, trace>>
    /\ UNCHANGED <<datasetVars, assembleVars, headVars>>

-----------------------------------------------------------------------------
(* model.py: ResNetDeepFashion *)

\* a freeze that walks the parameters of the whole model, head included
freeze_weights_whole_model ==
    /\ requires_grad' = [p \in Params |-> FALSE]
    /\ lastCall' = [name |-> "freeze_weights", outcome |-> "ok"]
    /\ UNCHANGED <<grad, value, batches_tracked, optimizer, optState, lastAttached,
                 trace, built>>
    /\ UNCHANGED <<datasetVars, assembleVars, headVars>>

\* for name, param in self.backbone.named_parameters(): param.requires_grad = False
freeze_weights ==
    /\ requires_grad' = [p \in Params |->
                            IF InList(p, parameters(<<"backbone">>)) THEN FALSE
                            ELSE requires_grad[p]]
    /\ lastCall' = [name |-> "freeze_weights", outcome |-> "ok"]
    /\ UNCHANGED <<grad, value, batches_tracked, optimizer, optState, lastAttached,
                 trace, built>>
    /\ UNCHANGED <<datasetVars, assembleVars, headVars>>

unfreeze_weights ==
    /\ requires_grad' = [p \in Params |->
                            IF InList(p, parameters(<<"backbone">>)) THEN TRUE
                            ELSE requires_grad[p]]
    /\ lastCall' = [name |-> "unfreeze_weights", outcome |-> "ok"]
    /\ UNCHANGED <<grad, value, batches_tracked, optimizer, optState, lastAttached,
                 trace, built>>
    /\ UNCHANGED <<datasetVars, assembleVars, headVars>>

\* self.optimizer = optimizer
configure_optimizer ==
    /\ \E o \in OptIds :
          /\ optimizer' = Some(o)
          /\ lastAttached' = Some(o)
    /\ lastCall' = [name |-> "configure_optimizer", outcome |-> "ok"]
    /\ UNCHANGED <<requires_grad, grad, value, batches_tracked, optState, trace, built>>
    /\ UNCHANGED <<datasetVars, assembleVars, headVars>>

Op(name, opt) == [op |-> name, opt |-> opt]

\* a forward whose backbone call is not wrapped in torch.no_grad()
forward_backbone_tracked(grad_enabled) ==
    [ops |-> << Op("backbone", ""), Op("cls_head", ""), Op("cross_entropy", "") >>,
     graph |-> IF grad_enabled
               THEN {p \in Params : requires_grad[p]}
               ELSE {},
     tracked |-> batches_tracked + 1]

\* forward(x, targets): the backbone runs inside torch.no_grad(), the head and
\* the loss outside it. graph: the parameters the loss is differentiable in.
\* tracked: the backbone's BatchNorm layers, left in training mode, count the
\* batch in their buffers whatever the gradient mode is.
forward(grad_enabled) ==
    [ops |-> << Op("backbone(no_grad)", ""), Op("cls_head", ""),
                Op("cross_entropy", "") >>,
     graph |-> IF grad_enabled
               THEN {p \in Range(HeadParams) : requires_grad[p]}
               ELSE {},
     tracked |-> batches_tracked + 1]

\* optimizer.zero_grad(): clears the gradients of the optimizer's parameters
zero_grad(g, o) == [p \in Params |-> IF p \in OptParams(o) THEN "none" ELSE g[p]]

\* loss.backward(): every parameter of the graph receives a gradient
backward(g, graph) == [p \in Params |-> IF p \in graph THEN "set" ELSE g[p]]

\* optimizer.step(): updates the optimizer's parameters that hold a gradient
step(v, g, o) ==
    [p \in Params |-> IF p \in OptParams(o) /\ g[p] = "set" THEN v[p] + 1 ELSE v[p]]

\* a training step that clears the gradients after the backward pass
training_step_zero_after_backward ==
    /\ batches_tracked < MaxSteps
    /\ ~optimizer.isNone
    /\ LET fw == forward(TRUE)
           o == optimizer.v
           g1 == backward(grad, fw.graph)
           g2 == zero_grad(g1, o)
       IN  /\ trace' = fw.ops \o << Op("backward", ""), Op("zero_grad", o),
                                    Op("step", o) >>
           /\ grad' = g2
           /\ value' = step(value, g2, o)
           /\ optState' = [optState EXCEPT ![o].zero_grads = @ + 1,
                                           ![o].steps = @ + 1]
           /\ lastCall' = [name |-> "training_step", outcome |-> "ok"]
    /\ batches_tracked' = forward(TRUE).tracked
    /\ UNCHANGED <<requires_grad, optimizer, lastAttached, built>>
    /\ UNCHANGED <<datasetVars, assembleVars, headVars>>

training_step ==
    /\ batches_tracked < MaxSteps
    /\ LET fw == forward(TRUE)
       IN  IF optimizer.isNone
           THEN \* self.optimizer.zero_grad() on None
                /\ trace' = fw.ops
                /\ lastCall' = [name |-> "training_step", outcome |-> "AttributeError"]
                /\ UNCHANGED <<grad, value, optState>>
           ELSE IF fw.graph = {}
           THEN \* loss.backward() on a loss that requires no gradient
                /\ trace' = fw.ops \o << Op("zero_grad", optimizer.v) >>
                /\ grad' = zero_grad(grad, optimizer.v)
                /\ optState' = [optState EXCEPT ![optimizer.v].zero_grads = @ + 1]
                /\ lastCall' = [name |-> "training_step", outcome |-> "RuntimeError"]
                /\ UNCHANGED value
           ELSE LET o == optimizer.v
                    g1 == zero_grad(grad, o)
                    g2 == backward(g1, fw.graph)
                IN  /\ trace' = fw.ops \o << Op("zero_grad", o), Op("backward", ""),
                                             Op("step", o) >>
                    /\ grad' = g2
                    /\ value' = step(value, g2, o)
                    /\ optState' = [optState EXCEPT ![o].zero_grads = @ + 1,
                                                    ![o].steps = @ + 1]
                    /\ lastCall' = [name |-> "training_step", outcome |-> "ok"]
    /\ batches_tracked' = forward(TRUE).tracked
    /\ UNCHANGED <<requires_grad, optimizer, lastAttached, built>>
    /\ UNCHANGED <<datasetVars, assembleVars, headVars>>

\* a validation step without no_grad that also runs the optimizer
validation_step_updating ==
    /\ batches_tracked < MaxSteps
    /\ LET fw == forward(TRUE)
       IN  IF optimizer.isNone
           THEN /\ trace' = fw.ops
                /\ UNCHANGED <<grad, value, optState>>
           ELSE LET o == optimizer.v
                    g1 == zero_grad(grad, o)
                    g2 == backward(g1, fw.graph)
                IN  /\ trace' = fw.ops \o << Op("zero_grad", o), Op("backward", ""),
                                             Op("step", o) >>
                    /\ grad' = g2
                    /\ value' = step(value, g2, o)
                    /\ optState' = [optState EXCEPT ![o].zero_grads = @ + 1,
                                                    ![o].steps = @ + 1]
    /\ lastCall' = [name |-> "validation_step", outcome |-> "ok"]
    /\ batches_tracked' = forward(TRUE).tracked
    /\ UNCHANGED <<requires_grad, optimizer, lastAttached, built>>
    /\ UNCHANGED <<datasetVars, assembleVars, headVars>>

\* @torch.no_grad(): forward with loss, metrics on CPU copies, no optimizer call
validation_step ==
    /\ batches_tracked < MaxSteps
    /\ LET fw == forward(FALSE)
       IN  /\ trace' = fw.ops
           /\ batches_tracked' = fw.tracked
    /\ lastCall' = [name |-> "validation_step", outcome |-> "ok"]
    /\ UNCHANGED <<requires_grad, grad, value, optimizer, optState, lastAttached, built>>
    /\ UNCHANGED <<datasetVars, assembleVars, headVars>>


-----------------------------------------------------------------------------
(* builder.py: build_dataset *)

MaxEntries == 3

\* configuration keys, as character sequences
TrainKey == <<"t","r","a","i","n","_","d","a","t","a","s","e","t">>

ValKey == <<"v","a","l","_","d","a","t","a","s","e","t">>

TestKey == <<"d","a","t","a","s","e","t","_","b">>

ModelKey == <<"m","o","d","e","l">>

DataKeys == {TrainKey, ValKey, TestKey, ModelKey}

\* the names registered in the Dataset Registry
DATASETS == {"DeepFashion"}

DatasetCfgChoices ==
    { [root |-> "img"],
      [root |-> "img", split_info |-> "own_splits",
       garment_annotations |-> "own_annotations"] }

\* prepare_data(): the (splits, annotations) pair of the collaborator
prepare_data == [splits |-> "prepared_splits", annotations |-> "prepared_annotations"]

\* 'dataset' in x
Contains(x, sub) ==
    \E i \in 0..(Len(x) - Len(sub)) : SubSeq(x, i + 1, i + Len(sub)) = sub

\* list(filter(lambda x: 'dataset' in x, data.keys()))
dataset_keys(d) ==
    LET ks == [i \in 1..Len(d) |-> d[i].key]
    IN  SelectSeq(ks, LAMBDA k : Contains(k, <<"d","a","t","a","s","e","t">>))

\* data[key]
Lookup(d, key) == d[CHOOSE i \in 1..Len(d) : d[i].key = key]

\* DATASETS[dataset_type](**dataset_cfg)
DatasetInstance(dataset_type, dataset_cfg) ==
    [type |-> dataset_type, kwargs |-> dataset_cfg]

DsStart(d) ==
    [status |-> "running", raisedAt |-> 0, names |-> {}, data |-> d, ret |-> <<>>,
     calls |-> 0, bound |-> FALSE, splits |-> "", annotations |-> ""]

\* the variant that injects inside the `if key == 'train_dataset'` branch only
BuildEntryTrainOnly(st, key) ==
    LET e == Lookup(st.data, key)
    IN  IF e.type \notin DATASETS
        THEN [st EXCEPT !.status = "ValueError", !.raisedAt = 95, !.names = DATASETS]
        ELSE IF key = TrainKey
        THEN LET cfg == SetKey(SetKey(e.dataset_cfg, "split_info", prepare_data.splits),
                               "garment_annotations", prepare_data.annotations)
             IN  [st EXCEPT !.calls = @ + 1, !.bound = TRUE,
                            !.splits = prepare_data.splits,
                            !.annotations = prepare_data.annotations,
                            !.data = [i \in 1..Len(st.data) |->
                                         IF st.data[i].key = key
                                         THEN [st.data[i] EXCEPT !.dataset_cfg = cfg]
                                         ELSE st.data[i]],
                            !.ret = Append(@, [key |-> key,
                                               dataset |-> DatasetInstance(e.type, cfg)])]
        ELSE [st EXCEPT !.ret = Append(@, [key |-> key,
                                           dataset |-> DatasetInstance(e.type,
                                                                       e.dataset_cfg)])]

\* one iteration of `for key in dataset_keys`
BuildEntry(st, key) ==
    LET e == Lookup(st.data, key)
    IN  IF e.type \notin DATASETS
        THEN [st EXCEPT !.status = "ValueError", !.raisedAt = 95, !.names = DATASETS]
        ELSE LET st1 == IF key = TrainKey
                        THEN [st EXCEPT !.calls = @ + 1, !.bound = TRUE,
                                        !.splits = prepare_data.splits,
                                        !.annotations = prepare_data.annotations]
                        ELSE st
             IN  IF ~st1.bound
                 THEN \* dataset_cfg['split_info'] = splits, splits never assigned
                      [st1 EXCEPT !.status = "UnboundLocalError", !.raisedAt = 102]
                 ELSE LET cfg == SetKey(SetKey(e.dataset_cfg, "split_info", st1.splits),
                                        "garment_annotations", st1.annotations)
                      IN  [st1 EXCEPT
                              !.data = [i \in 1..Len(st1.data) |->
                                           IF st1.data[i].key = key
                                           THEN [st1.data[i] EXCEPT !.dataset_cfg = cfg]
                                           ELSE st1.data[i]],
                              !.ret = Append(@, [key |-> key,
                                                 dataset |-> DatasetInstance(e.type, cfg)])]

RECURSIVE BuildLoop(_, _, _)
BuildLoop(keys, i, st) ==
    IF i > Len(keys)
    THEN [st EXCEPT !.status = "ok"]
    ELSE LET st1 == BuildEntry(st, keys[i])
         IN  IF st1.status # "running" THEN st1 ELSE BuildLoop(keys, i + 1, st1)

build_dataset(d) == BuildLoop(dataset_keys(d), 1, DsStart(d))

BuildDataset ==
    /\ dsOut.status = "init"
    /\ dsOut' = build_dataset(data)
    /\ UNCHANGED <<data, modelVars, assembleVars, headVars>>

DataEntries ==
    [key : DataKeys, type : DATASETS \cup {"Unknown"}, dataset_cfg : DatasetCfgChoices]

\* a dict has each key once
DataChoices ==
    { d \in UNION { [1..n -> DataEntries] : n \in 0..MaxEntries } :
        \A i, j \in 1..Len(d) : d[i].key = d[j].key => i = j }

-----------------------------------------------------------------------------
(* model.py: the registries and ResNetDeepFashion.__init__ / _prepare_model *)

BACKBONES == {"resnet_18", "resnet_50", "resnet_152", "vit_b_16"}

CLS_HEADS == {"simple", "linear", "cgd_head"}

Layer(name) == [name |-> name, has_in_features |-> FALSE, in_features |-> 0]

LinearLayer(name, w) == [name |-> name, has_in_features |-> TRUE, in_features |-> w]

ResNetBody ==
    << Layer("conv1"), Layer("bn1"), Layer("relu"), Layer("maxpool"), Layer("layer1"),
       Layer("layer2"), Layer("layer3"), Layer("layer4"), Layer("avgpool") >>

\* list(self.backbone.children()) of what the registered factory returns:
\* a torchvision ResNet ends in the Linear `fc`, a VisionTransformer in the
\* Sequential `heads`, which has no in_features attribute
children(backbone) ==
    IF backbone = "resnet_18" THEN Append(ResNetBody, LinearLayer("fc", 512))
    ELSE IF backbone \in {"resnet_50", "resnet_152"}
    THEN Append(ResNetBody, LinearLayer("fc", 2048))
    ELSE << Layer("conv_proj"), Layer("encoder"), Layer("heads") >>

\* DESCRIPTORS['config_descriptor'](fan_in, gd_config, feat_dim): the code is
\* non-empty, made of known strategies, and its length divides feat_dim
config_descriptor(fan_in, gd_config, feat_dim) ==
    /\ Len(gd_config) > 0
    /\ \A i \in 1..Len(gd_config) : gd_config[i] \in {"S", "M", "G"}
    /\ feat_dim % Len(gd_config) = 0

\* the keys each head's __init__ reads with kwargs[...]
RequiredKeys(cls_head_type) ==
    IF cls_head_type = "simple" THEN {"fan_in", "n_classes"}
    ELSE IF cls_head_type = "linear" THEN {"fan_in", "embedding_sz", "n_classes"}
    ELSE {"fan_in", "gd_config", "feat_dim", "n_classes"}

\* CLS_HEADS[self.cls_head_type](**self.cls_head_config)
HeadInit(cls_head_type, cfg) ==
    IF ~(RequiredKeys(cls_head_type) \subseteq DOMAIN cfg)
    THEN [status |-> "KeyError", type |-> cls_head_type, fan_in |-> 0]
    ELSE IF cls_head_type = "cgd_head"
            /\ ~config_descriptor(cfg["fan_in"], cfg["gd_config"], cfg["feat_dim"])
    THEN [status |-> "AssertionError", type |-> cls_head_type, fan_in |-> 0]
    ELSE [status |-> "ok", type |-> cls_head_type, fan_in |-> cfg["fan_in"]]

NotAssembled ==
    [status |-> "init", raisedAt |-> 0, backbone |-> <<>>, num_features |-> 0,
     cls_head |-> [status |-> "none", type |-> "", fan_in |-> 0],
     cls_head_config |-> EmptyDict]

_prepare_model(kwargs) ==
    LET ch == children(kwargs.backbone)
        last == ch[Len(ch)]
    IN  IF ~last.has_in_features
        THEN [NotAssembled EXCEPT !.status = "AttributeError", !.raisedAt = 245,
                                  !.backbone = ch,
                                  !.cls_head_config = kwargs.cls_head_config]
        ELSE LET num_features == last.in_features
                 cfg == SetKey(kwargs.cls_head_config, "fan_in", num_features)
                 head == HeadInit(kwargs.cls_head_type, cfg)
             IN  [status |-> head.status,
                  raisedAt |-> IF head.status = "ok" THEN 0 ELSE 248,
                  backbone |-> SubSeq(ch, 1, Len(ch) - 1),
                  num_features |-> num_features,
                  cls_head |-> head,
                  cls_head_config |-> cfg]

Construct ==
    /\ asmOut.status = "init"
    /\ asmOut' = _prepare_model(asmIn)
    /\ UNCHANGED <<asmIn, modelVars, datasetVars, headVars>>

HeadCfgChoices ==
    { SetKey(c, "n_classes", 10) :
        c \in { EmptyDict,
                [fan_in |-> 7],
                [embedding_sz |-> 128],
                [fan_in |-> 7, embedding_sz |-> 128],
                [gd_config |-> <<"S", "M">>, feat_dim |-> 64],
                [fan_in |-> 7, gd_config |-> <<"S", "M">>, feat_dim |-> 64],
                [fan_in |-> 7, embedding_sz |-> 128,
                 gd_config |-> <<"S", "M">>, feat_dim |-> 64],
                [fan_in |-> 7, embedding_sz |-> 128,
                 gd_config |-> <<"G">>, feat_dim |-> 64] } }

AssembleChoices ==
    [backbone : BACKBONES, cls_head_type : CLS_HEADS, cls_head_config : HeadCfgChoices]

-----------------------------------------------------------------------------
(* model.py: the classification heads' forward *)

MaxB == 2

MaxC == 2

Tensor(shape, elems) == [ok |-> TRUE, shape |-> shape, data |-> elems]

\* an operation that raised
Failed == [ok |-> FALSE, shape |-> <<>>, data |-> <<>>]

RECURSIVE Prod(_)
Prod(shape) == IF shape = <<>> THEN 1 ELSE Head(shape) * Prod(Tail(shape))

\* x.squeeze(): every dimension of size 1 is removed
squeeze(t) == [t EXCEPT !.shape = SelectSeq(t.shape, LAMBDA n : n # 1)]

\* x.ndim
ndim(t) == Len(t.shape)

\* nn.Linear(in_features, out_features) with the weights w
LinearModule(in_features, out_features, w) ==
    [in_features |-> in_features, out_features |-> out_features,
     scale |-> w.scale, bias |-> w.bias]

Weight(layer, o, i) == IF i = ((o - 1) % layer.in_features) + 1 THEN layer.scale ELSE 0

RECURSIVE Dot(_, _, _, _)
Dot(layer, o, row, i) ==
    IF i = 0 THEN 0 ELSE Weight(layer, o, i) * row[i] + Dot(layer, o, row, i - 1)

\* layer(t): the last dimension of t must be in_features
Linear(layer, t) ==
    IF ~t.ok \/ ndim(t) = 0 \/ t.shape[ndim(t)] # layer.in_features
    THEN Failed
    ELSE LET n == layer.in_features
             m == layer.out_features
             rows == Prod(SubSeq(t.shape, 1, ndim(t) - 1))
         IN  Tensor(SubSeq(t.shape, 1, ndim(t) - 1) \o <<m>>,
                    [k \in 1..(rows * m) |->
                        LET r == (k - 1) \div m
                            o == ((k - 1) % m) + 1
                        IN  Dot(layer, o, SubSeq(t.data, r * n + 1, r * n + n), n)
                            + layer.bias])

\* nn.ReLU()
ReLU(t) == [t EXCEPT !.data = [k \in 1..Len(t.data) |-> IF t.data[k] < 0 THEN 0 ELSE t.data[k]]]

NoOutput ==
    [head |-> "none", ok |-> FALSE, flat |-> Failed, logits |-> Failed,
     embedding |-> Failed, gd_input |-> Failed]

\* ClassificationHead(fan_in, n_classes).forward(x)
SimpleForward(h, x) ==
    LET cls_head == LinearModule(h.fan_in, h.n_classes, h.cls)
        x1 == IF ndim(x) > 2 THEN squeeze(x) ELSE x
        embedding == x1
        out_cls == Linear(cls_head, embedding)
    IN  [NoOutput EXCEPT !.head = "simple", !.ok = out_cls.ok, !.flat = x1,
                         !.logits = out_cls,
                         !.embedding = IF out_cls.ok THEN embedding ELSE Failed]

\* LinearClassificationHead(fan_in, embedding_sz, n_classes).forward(x);
\* self.act is constructed but forward does not call it
LinearForward(h, x) ==
    LET emb_layer == LinearModule(h.fan_in, h.embedding_sz, h.emb)
        cls_head == LinearModule(h.embedding_sz, h.n_classes, h.cls)
        x1 == squeeze(x)
        embedding == Linear(emb_layer, x1)
        out_cls == Linear(cls_head, embedding)
    IN  [NoOutput EXCEPT !.head = "linear", !.ok = out_cls.ok, !.flat = x1,
                         !.logits = out_cls,
                         !.embedding = IF out_cls.ok THEN embedding ELSE Failed]

\* CombinedGlobalDescriptorClassHead.forward(x): gd, first_gd = self.gd(x)
CgdForward(h, x) ==
    [NoOutput EXCEPT !.head = "cgd_head", !.gd_input = x]

ForwardSimple ==
    /\ headOut.head = "none"
    /\ headOut' = SimpleForward(headIn.head, headIn.x)
    /\ UNCHANGED <<headIn, modelVars, datasetVars, assembleVars>>

ForwardLinear ==
    /\ headOut.head = "none"
    /\ headOut' = LinearForward(headIn.head, headIn.x)
    /\ UNCHANGED <<headIn, modelVars, datasetVars, assembleVars>>

ForwardCgd ==
    /\ headOut.head = "none"
    /\ headOut' = CgdForward(headIn.head, headIn.x)
    /\ UNCHANGED <<headIn, modelVars, datasetVars, assembleVars>>

WeightChoices == [scale : {-1, 1}, bias : {0, 1}]

\* feature maps (B, C, 1, 1) and flat features (B, C) with elements -1 or 1,
\* given to a head built with fan_in = C
HeadInputs ==
    { [x |-> Tensor(shape, elems),
       head |-> [fan_in |-> shape[2], n_classes |-> 2, embedding_sz |-> 2,
                 emb |-> we, cls |-> [scale |-> wc, bias |-> 0]]] :
        shape \in UNION { { <<b, c, 1, 1>>, <<b, c>> } : b \in 1..MaxB, c \in 1..MaxC },
        elems \in UNION { [1..n -> {-1, 1}] : n \in 1..(MaxB * MaxC) },
        we \in WeightChoices, wc \in {-1, 1} }

-----------------------------------------------------------------------------
(* Initial states and specifications *)

ModelInit ==
    /\ requires_grad = [p \in Params |-> TRUE]
    /\ grad = [p \in Params |-> "none"]
    /\ value = [p \in Params |-> 0]
    /\ batches_tracked = 0
    /\ optimizer = None
    /\ optState = [o \in OptIds |-> [zero_grads |-> 0, steps |-> 0]]
    /\ lastAttached = None
    /\ trace = <<>>
    /\ lastCall = NoCall
    /\ built = NotBuilt

DatasetIdle ==
    /\ data = <<>>
    /\ dsOut = [DsStart(<<>>) EXCEPT !.status = "idle"]

AssembleIdle ==
    /\ asmIn = (CHOOSE a \in AssembleChoices : TRUE)
    /\ asmOut = [NotAssembled EXCEPT !.status = "idle"]

HeadIdle ==
    /\ headIn = [x |-> Tensor(<<1, 1>>, <<1>>),
                 head |-> [fan_in |-> 1, n_classes |-> 2, embedding_sz |-> 2,
                           emb |-> [scale |-> 1, bias |-> 0],
                           cls |-> [scale |-> 1, bias |-> 0]]]
    /\ headOut = [NoOutput EXCEPT !.head = "idle"]

\* the state after ResNetDeepFashion.__init__ succeeded
Init == ModelInit /\ DatasetIdle /\ AssembleIdle /\ HeadIdle

Next ==
    \/ freeze_weights
    \/ unfreeze_weights
    \/ configure_optimizer
    \/ training_step
    \/ validation_step

Spec == Init /\ [][Next]_vars

\* build_optimizer on a model whose backbone is frozen and unfrozen at will
NextOptimizer ==
    \/ freeze_weights
    \/ unfreeze_weights
    \/ BuildOptimizer

SpecOptimizer == Init /\ [][NextOptimizer]_vars

\* build_dataset on each configuration
InitDataset ==
    /\ ModelInit /\ AssembleIdle /\ HeadIdle
    /\ data \in DataChoices
    /\ dsOut = [DsStart(data) EXCEPT !.status = "init"]

NextDataset == BuildDataset

SpecDataset == InitDataset /\ [][NextDataset]_vars

\* the construction of a model from each configuration
InitAssemble ==
    /\ ModelInit /\ DatasetIdle /\ HeadIdle
    /\ asmIn \in AssembleChoices
    /\ asmOut = NotAssembled

NextAssemble == Construct

SpecAssemble == InitAssemble /\ [][NextAssemble]_vars

\* each head's forward on each input
InitHead ==
    /\ ModelInit /\ DatasetIdle /\ AssembleIdle
    /\ headIn \in {h \in HeadInputs : Len(h.x.data) = Prod(h.x.shape)}
    /\ headOut = NoOutput

NextHead ==
    \/ ForwardSimple
    \/ ForwardLinear
    \/ ForwardCgd

SpecHead == InitHead /\ [][NextHead]_vars

-----------------------------------------------------------------------------
(* Claims about build_optimizer, checked under SpecOptimizer *)

JustBuilt == lastCall.name = "build_optimizer"

\* the parameters of the submodules named in the list (names of no module
\* match nothing), or the parameters that require a gradient now
ExpectedParams(cfg_params) ==
    IF cfg_params.isNone
    THEN {p \in Params : requires_grad[p]}
    ELSE UNION {Range(parameters(m)) : m \in Range(cfg_params.v) \cap Range(NamedModules)}

\* C1: build_optimizer with a registered type calls the optimizer constructor
\* with params = the collected parameters (those of the named submodules for a
\* name list, those with requires_grad true for None) and with the keys of
\* cfg.optimizer_cfg.
C1_CollectedParamsPassed ==
    (JustBuilt /\ built.type \in OPTIMIZERS) =>
        /\ built.called
        /\ "params" \in DOMAIN built.kwargs
        /\ ~built.kwargs["params"].isNone
        /\ Range(built.kwargs["params"].v) = ExpectedParams(built.cfg_params)
        /\ (DOMAIN built.kwargs) \ {"params"} = built.cfg_keys \ {"params"}

\* C2: build_optimizer with an unregistered type fails with the unknown-type
\* error that lists the registered optimizer names, whatever cfg.params and
\* cfg.optimizer_cfg are, and constructs no optimizer.
C2_UnknownTypeListsNames ==
    (JustBuilt /\ built.type \notin OPTIMIZERS) =>
        /\ built.status = "ValueError"
        /\ built.raisedAt = 160
        /\ built.names = OPTIMIZERS
        /\ ~built.called

BackboneFrozen == \A p \in Range(BackboneParams) : ~requires_grad[p]

\* C3: after any freeze_weights / unfreeze_weights calls, build_optimizer with
\* cfg.params = None returns an optimizer over exactly the parameters whose
\* requires_grad is true at the call: no backbone parameter once frozen.
C3_LiveTrainableParams ==
    (JustBuilt /\ built.cfg_params.isNone /\ built.type \in OPTIMIZERS) =>
        /\ built.status = "ok"
        /\ ~built.kwargs["params"].isNone
        /\ Range(built.kwargs["params"].v) = {p \in Params : requires_grad[p]}
        /\ BackboneFrozen => Range(built.kwargs["params"].v) \cap Range(BackboneParams) = {}

-----------------------------------------------------------------------------
(* Claims about build_dataset, checked under SpecDataset *)

DatasetDone == dsOut.status \in {"ok", "ValueError", "UnboundLocalError"}

InjectedKeys == {"split_info", "garment_annotations"}

\* the entries instantiated by the call, in order
Instantiated == dsOut.ret

C5_ReturnsEveryDatasetKey ==
    LET keys == dataset_keys(data)
    IN  (DatasetDone /\ \A i \in 1..Len(keys) : Lookup(data, keys[i]).type \in DATASETS) =>
            /\ dsOut.status = "ok"
            /\ Len(dsOut.ret) = Len(keys)
            /\ \A i \in 1..Len(keys) :
                  /\ dsOut.ret[i].key = keys[i]
                  /\ dsOut.ret[i].dataset.type = Lookup(data, keys[i]).type
            /\ dsOut.calls = IF InList(TrainKey, keys) THEN 1 ELSE 0

-----------------------------------------------------------------------------
(* Claim about the model assembly, checked under SpecAssemble *)

Assembled == asmOut.status \notin {"init", "idle"}

\* the configurations that carry every key the chosen head reads, but for
\* fan_in, which the assembly supplies
HeadConfigComplete ==
    /\ RequiredKeys(asmIn.cls_head_type) \ {"fan_in"} \subseteq DOMAIN asmIn.cls_head_config
    /\ asmIn.cls_head_type = "cgd_head" =>
           config_descriptor(0, asmIn.cls_head_config["gd_config"],
                             asmIn.cls_head_config["feat_dim"])

\* C6: for every registered backbone and head type and every cls_head_config
\* (one that already carries another fan_in included), the construction reads
\* the input width W of the backbone's last sub-layer, keeps all sub-layers
\* but the last, in order, as the backbone, and builds the head with
\* fan_in = W.
C6_HeadFanInIsBackboneWidth ==
    (Assembled /\ HeadConfigComplete) =>
        LET ch == children(asmIn.backbone)
        IN  /\ asmOut.status = "ok"
            /\ ch[Len(ch)].has_in_features
            /\ asmOut.num_features = ch[Len(ch)].in_features
            /\ asmOut.backbone = SubSeq(ch, 1, Len(ch) - 1)
            /\ asmOut.cls_head.fan_in = ch[Len(ch)].in_features

-----------------------------------------------------------------------------
(* Claims about the heads' forward, checked under SpecHead *)

\* the input is a feature map (B, C, 1, 1)
PooledMap == ndim(headIn.x) = 4 /\ headIn.x.shape[3] = 1 /\ headIn.x.shape[4] = 1

\* C8: the 'linear' head computes projection, ReLU, classifier in this order:
\* the returned embedding is the post-ReLU projection (no negative
\* component) and the logits are the classifier applied to it.
C8_EmbeddingIsPostReLU ==
    (headOut.head = "linear" /\ headOut.ok) =>
        LET h == headIn.head
            projection == Linear(LinearModule(h.fan_in, h.embedding_sz, h.emb), headOut.flat)
        IN  /\ headOut.embedding = ReLU(projection)
            /\ \A k \in 1..Len(headOut.embedding.data) : headOut.embedding.data[k] >= 0
            /\ headOut.logits =
                  Linear(LinearModule(h.embedding_sz, h.n_classes, h.cls), headOut.embedding)

\* C9: for every B >= 1 and C, the 'simple' and the 'linear' head reduce a
\* feature map (B, C, 1, 1) to a tensor (B, C) before the linear layer, so the
\* logits are (B, n_classes); 'cgd_head' hands its input to the descriptor
\* composite unsqueezed.
C9_SqueezeKeepsBatch ==
    PooledMap =>
        /\ headOut.head \in {"simple", "linear"} =>
              /\ headOut.flat.shape = <<headIn.x.shape[1], headIn.x.shape[2]>>
              /\ headOut.ok
              /\ headOut.logits.shape = <<headIn.x.shape[1], headIn.head.n_classes>>
        /\ headOut.head = "cgd_head" => headOut.gd_input = headIn.x

-----------------------------------------------------------------------------
(* Claims about the training and validation steps, checked under Spec *)

OptimizerOps == {"zero_grad", "backward", "step"}

\* C7: validation_step changes no parameter of backbone or head and no
\* optimizer state, with or without an optimizer attached and whether the
\* backbone is frozen or not, and invokes no optimizer operation.
C7_ValidationStepChangesNothing ==
    [][lastCall'.name = "validation_step" =>
          /\ value' = value
          /\ grad' = grad
          /\ requires_grad' = requires_grad
          /\ optState' = optState
          /\ optimizer' = optimizer
          /\ \A i \in 1..Len(trace') : trace'[i].op \notin OptimizerOps]_vars

\* a validation step on a trained model with a frozen backbone and an
\* optimizer attached
C7_Witness ==
    /\ lastCall.name = "validation_step"
    /\ ~optimizer.isNone
    /\ BackboneFrozen
    /\ \E p \in Params : value[p] > 0 /\ grad[p] = "set"
    /\ optState[optimizer.v].steps > 0

\* C10: after any configure_optimizer calls, a training_step performs on the
\* most recently attached optimizer, and on no other, exactly one zero_grad,
\* then the backward pass, then exactly one step, in this order and after the
\* forward pass that computed the loss.
C10_TrainingStepOrder ==
    [][(lastCall'.name = "training_step" /\ ~lastAttached.isNone) =>
          LET o == lastAttached.v
              n == Len(trace')
          IN  /\ lastCall'.outcome = "ok"
              /\ n >= 4
              /\ SubSeq(trace', n - 2, n) =
                    << Op("zero_grad", o), Op("backward", ""), Op("step", o) >>
              /\ \A i \in 1..(n - 3) : trace'[i].op \notin OptimizerOps
              /\ trace'[n - 3].op = "cross_entropy"
              /\ optState' = [optState EXCEPT ![o].zero_grads = @ + 1,
                                              ![o].steps = @ + 1]]_vars

\* a training step on an optimizer attached after another one had been used
C10_Witness ==
    /\ lastCall = [name |-> "training_step", outcome |-> "ok"]
    /\ optimizer = Some("optHead")
    /\ lastAttached = optimizer
    /\ optState["optAll"].steps > 0
    /\ optState["optHead"].steps > 0

-----------------------------------------------------------------------------
(* Claim about the backbone in training steps, checked under Spec *)

\* C11: the backbone runs inside a no-gradient region in forward, so no
\* training_step gives a backbone parameter a gradient or changes its value,
\* frozen or not and even when the attached optimizer holds the backbone
\* parameters; only head parameters are updated by a training_step.
C11_BackboneNeverUpdated ==
    [][lastCall'.name = "training_step" =>
          /\ \A p \in Range(BackboneParams) :
                /\ grad'[p] = "none"
                /\ value'[p] = value[p]
          /\ \A p \in Params : value'[p] # value[p] => p \in Range(HeadParams)
          /\ \A i \in 1..Len(trace') :
                trace'[i].op \in {"backbone", "backbone(no_grad)"} =>
                    trace'[i].op = "backbone(no_grad)"]_vars

\* a successful training step on the optimizer that holds every parameter,
\* with the backbone trainable: the head moved, the backbone did not
C11_Witness ==
    /\ lastCall = [name |-> "training_step", outcome |-> "ok"]
    /\ optimizer = Some("optAll")
    /\ \A p \in Range(BackboneParams) :
          requires_grad[p] /\ p \in OptParams("optAll") /\ value[p] = 0
    /\ \A p \in Range(HeadParams) : value[p] > 0 /\ grad[p] = "set"

-----------------------------------------------------------------------------
(* Claim about the optimizer and trainability axes, checked under Spec *)

HeadFlags == [p \in Range(HeadParams) |-> requires_grad[p]]

\* C12: a Model has no optimizer right after construction; freeze_weights
\* makes every backbone parameter non-trainable and unfreeze_weights makes
\* every one trainable, each leaving the head's trainability and the
\* optimizer reference alone; configure_optimizer replaces the optimizer
\* reference only; no other call touches the flags, so the backbone flags are
\* those set by the last freeze_weights / unfreeze_weights call.
C12_IndependentAxes ==
    [][/\ lastCall.name = "construct" => optimizer.isNone
       /\ lastCall'.name = "freeze_weights" =>
             /\ \A p \in Range(BackboneParams) : ~requires_grad'[p]
             /\ HeadFlags' = HeadFlags
             /\ optimizer' = optimizer
       /\ lastCall'.name = "unfreeze_weights" =>
             /\ \A p \in Range(BackboneParams) : requires_grad'[p]
             /\ HeadFlags' = HeadFlags
             /\ optimizer' = optimizer
       /\ lastCall'.name = "configure_optimizer" =>
             /\ optimizer' = lastAttached'
             /\ ~optimizer'.isNone
             /\ UNCHANGED <<requires_grad, grad, value, optState>>
       /\ lastCall'.name \notin {"freeze_weights", "unfreeze_weights"} =>
             requires_grad' = requires_grad]_vars

\* the backbone was frozen, an optimizer attached and used, and the backbone
\* unfrozen again: the flags follow the last call, the optimizer stays
C12_Witness ==
    /\ lastCall.name = "unfreeze_weights"
    /\ optimizer = Some("optHead")
    /\ optState["optAll"].steps > 0
    /\ \A p \in Params : requires_grad[p]

====
